---------------------------- MODULE Spec2Model ----------------------------
(***************************************************************************)
(* Tabular CVaR Q-learning (src/q_learning/q_learning.py) and the act      *)
(* function of the distributional DQN graph                                *)
(* (src/cvar/dqn/core/build_graph.py).                                     *)
(*                                                                         *)
(* Real numbers: the code computes in float64.  Here every real is an      *)
(* integer count of 1/Unit, and a product or quotient is rounded to the    *)
(* nearest multiple of 1/Unit.  Unit is chosen so that the atoms, 1/atom,  *)
(* beta and the two nudges of the update rule are exact.                   *)
(*                                                                         *)
(* Indices are the code's: atoms[0..NB_ATOMS], V[0..NB_ATOMS-1], grid      *)
(* states (y, x) from 0, actions from 0.                                   *)
(***************************************************************************)
EXTENDS Integers, Sequences, FiniteSets, TLC

VARIABLES
    Q,        \* ActionValueFunction.Q: index (row, column, action) -> object
    heap,     \* the MarkovState objects: object -> [V, yC]
    pc,       \* position in q_learning / which entry point ran last
    e,        \* q_learning: episode counter
    i,        \* q_learning: step counter of the episode
    x,        \* q_learning: current state
    a,        \* q_learning: last action chosen
    s,        \* q_learning: risk budget
    r,        \* q_learning: reward of the transition just sampled
    upd,      \* the last update call: its arguments, V_x and its accesses
    calls,    \* update calls made on the table directly
    ret,      \* the last query call and what it returned
    mv,       \* a MarkovState on its own (queries of a fixed distribution)
    eps_var,  \* build_act: the tf variable eps
    act_out   \* build_act: the last call of act and its output

vars == <<Q, heap, pc, e, i, x, a, s, r, upd, calls, ret, mv, eps_var, act_out>>

---------------------------------------------------------------------------
(* Bounds of the model *)

MaxEpisodes == 2         \* q_learning's max_episodes
MaxEpisodeLength == 2    \* q_learning's max_episode_length
MaxCalls == 3            \* update calls explored from the empty table
MaxVal == 2              \* |V[i]|, in whole units, of a free-standing MarkovState

---------------------------------------------------------------------------
(* Numbers *)

Unit == 30 * 40

Rnd(n, d) == (2 * n + d) \div (2 * d)

MulQ(p, q) == Rnd(p * q, Unit)

DivQ(p, q) == Rnd(p * Unit, q)

Min2(p, q) == IF p <= q THEN p ELSE q

MaxOf(S) == CHOOSE m \in S : \A n \in S : n <= m

MinOf(S) == CHOOSE m \in S : \A n \in S : m <= n

---------------------------------------------------------------------------
(* Module constants *)

NB_ATOMS == 4

AtomIdx == 0 .. NB_ATOMS - 1

\* spaced_atoms(NB_ATOMS, SPACING, LOG) with LOG = False: even spacing
atoms == [k \in 0 .. NB_ATOMS |-> (k * Unit) \div NB_ATOMS]

atom_p == [k \in AtomIdx |-> atoms[k + 1] - atoms[k]]

beta == Unit \div 10

gamma == (19 * Unit) \div 20

Alpha == Unit \div 10

---------------------------------------------------------------------------
(* The world (cliffwalker.GridWorld) *)

Height == 2

Width == 2

NumActions == 2

Actions == 0 .. NumActions - 1

States == [y : 0 .. Height - 1, x : 0 .. Width - 1]

initial_state == [y |-> Height - 1, x |-> 0]

goal_states == {[y |-> Height - 1, x |-> Width - 1]}

Clip(v, hi) == IF v < 0 THEN 0 ELSE IF v > hi THEN hi ELSE v

\* 0 right, 1 up, 2 left, 3 down; a move off the grid stays in place
Target(st, act) ==
    LET dy == IF act % 4 = 1 THEN -1 ELSE IF act % 4 = 3 THEN 1 ELSE 0
        dx == IF act % 4 = 2 THEN -1 ELSE IF act % 4 = 0 THEN 1 ELSE 0
    IN [y |-> Clip(st.y + dy, Height - 1), x |-> Clip(st.x + dx, Width - 1)]

Reward(st) == IF st \in goal_states THEN Unit ELSE -Unit

\* the action taken is act or, with probability random_action_p, any action
sample_transition(st, act) ==
    {[state |-> Target(st, b), reward |-> Reward(Target(st, b))] : b \in Actions}

---------------------------------------------------------------------------
(* MarkovState *)

MarkovState == [V |-> [k \in AtomIdx |-> 0], yC |-> [k \in AtomIdx |-> 0]]

yc_to_var(yc) ==
    [k \in AtomIdx |->
        DivQ(yc[k] - (IF k = 0 THEN 0 ELSE yc[k - 1]), atoms[k + 1] - atoms[k])]

\* for i in range(1, len(atoms)): if alpha < atoms[i]: break
YcIdx(alpha) ==
    IF \E k \in 1 .. NB_ATOMS : alpha < atoms[k]
    THEN MinOf({k \in 1 .. NB_ATOMS : alpha < atoms[k]})
    ELSE NB_ATOMS

yc_alpha(ms, alpha) ==
    LET k == YcIdx(alpha)
        alpha_portion == DivQ(alpha - atoms[k - 1], atoms[k] - atoms[k - 1])
    IN IF k = 1
       THEN MulQ(alpha_portion, ms.yC[k - 1])
       ELSE ms.yC[k - 2] + MulQ(alpha_portion, ms.yC[k - 1] - ms.yC[k - 2])

RECURSIVE EMinFrom(_, _, _)
EMinFrom(V, th, k) ==
    IF k >= NB_ATOMS THEN 0
    ELSE IF V[k] < th
         THEN MulQ(atom_p[k], V[k] - th) + EMinFrom(V, th, k + 1)
         ELSE 0

EMinFlipped(ms, th) == -EMinFrom(ms.V, th, 0)

e_min_s(ms, th) == EMinFrom(ms.V, th, 0)

---------------------------------------------------------------------------
(* ActionValueFunction *)

Index == {<<row, col, act>> : row \in 0 .. Height - 1, col \in 0 .. Width - 1,
                              act \in Actions}

Ord(ix) == (ix[1] * Width + ix[2]) * NumActions + ix[3] + 1

Refs == 1 .. Height * Width * NumActions

SharedTable == [ix \in Index |-> 1]

\* for ix in np.ndindex(self.Q.shape): self.Q[ix] = MarkovState()
NewTable == [ix \in Index |-> Ord(ix)]

NewHeap == [o \in Refs |-> MarkovState]

Cell(st, act) == heap[Q[<<st.y, st.x, act>>]]

\* np.argmax of a list indexed by the actions: the first index of the maximum
ArgMaxOneBased(f) == 1 + MinOf({b \in Actions : f[b] = MaxOf({f[c] : c \in Actions})})

ArgMax(f) == MinOf({b \in Actions : f[b] = MaxOf({f[c] : c \in Actions})})

next_action_alpha(st, alpha) ==
    ArgMax([b \in Actions |-> yc_alpha(Cell(st, b), alpha)])

next_action_s(st, th) ==
    ArgMax([b \in Actions |-> e_min_s(Cell(st, b), th)])

SupQOfV(st) ==
    [k \in AtomIdx |-> MaxOf({Cell(st, b).V[k] : b \in Actions})]

sup_q(st) ==
    yc_to_var([k \in AtomIdx |-> MaxOf({Cell(st, b).yC[k] : b \in Actions})])

\* for i in range(len(atoms)): if alpha < atoms[i]: break
VarIdx(alpha) ==
    IF \E k \in 0 .. NB_ATOMS : alpha < atoms[k]
    THEN MinOf({k \in 0 .. NB_ATOMS : alpha < atoms[k]})
    ELSE NB_ATOMS

\* a negative index counts from the end
PyIdx(k) == IF k < 0 THEN NB_ATOMS + k ELSE k

\* self.Q[x.x, x.y, a].V[i-1]; IndexError when (x.x, x.y) is off the array
var_alpha(st, act, alpha) ==
    IF st.x <= Height - 1 /\ st.y <= Width - 1
    THEN [raised |-> FALSE,
          value |-> heap[Q[<<st.x, st.y, act>>]].V[PyIdx(VarIdx(alpha) - 1)]]
    ELSE [raised |-> TRUE, value |-> 0]

NudgeFlipped(atom) == MulQ(beta, DivQ(Unit, atom) - Unit)

\* beta*(1-1/atom)
Nudge(atom) == MulQ(beta, Unit - DivQ(Unit, atom))

\* One pass of the inner loop body for atom index k and candidate v.
\* st.ms is the MarkovState object; st.applied, st.readback and st.written
\* record the accesses: how often the body ran for k, how often it read a
\* slot written earlier in the same call, and the slots written so far.
Apply(st, k, v, rew) ==
    LET ms == st.ms
        V == ms.V[k]
        yC == ms.yC[k]
        atom == atoms[k + 1]
        target == rew + MulQ(gamma, v)
        newV == IF ms.V[k] >= target
                THEN ms.V[k] + Nudge(atom)
                ELSE ms.V[k] + beta
        newyC == MulQ(Unit - beta, yC)
                    + MulQ(beta, MulQ(atom, V) + Min2(0, target - V))
        slots == {<<"V", k>>, <<"yC", k>>}
    IN [ms |-> [V |-> [ms.V EXCEPT ![k] = newV],
                yC |-> [ms.yC EXCEPT ![k] = newyC]],
        applied |-> [st.applied EXCEPT ![k] = @ + 1],
        readback |-> [st.readback EXCEPT
                        ![k] = @ + (IF slots \cap st.written # {} THEN 1 ELSE 0)],
        written |-> st.written \cup slots]

\* iteration n of "for v in V_x: for i, atom in enumerate(atoms[1:])"
RECURSIVE LoopFrom(_, _, _, _, _)
LoopFrom(st, Vx, rew, n, stop) ==
    IF n >= stop THEN st
    ELSE CHOOSE end \in
            {LoopFrom(nxt, Vx, rew, n + 1, stop) :
                nxt \in {Apply(st, n % NB_ATOMS, Vx[n \div NB_ATOMS], rew)}} : TRUE

LoopStart(ms) ==
    [ms |-> ms, applied |-> [k \in AtomIdx |-> 0],
     readback |-> [k \in AtomIdx |-> 0], written |-> {}]

UpdateLoopFirstCandidate(ms, Vx, rew) ==
    LoopFrom(LoopStart(ms), Vx, rew, 0, NB_ATOMS)

UpdateLoop(ms, Vx, rew) ==
    LoopFrom(LoopStart(ms), Vx, rew, 0, Cardinality(DOMAIN Vx) * NB_ATOMS)

NoUpd == [called |-> FALSE, ix |-> <<0, 0, 0>>, candidates |-> 0,
          applied |-> [k \in AtomIdx |-> 0], readback |-> [k \in AtomIdx |-> 0]]

\* lines 38-50 for the cell at ix, given V_x: the heap after the call, the
\* record of the call, and whether the closing assert held
UpdateCell(ix, V_x, rew) ==
    CHOOSE out \in
        {[heap |-> [heap EXCEPT ![Q[ix]] = res.ms],
          upd |-> [called |-> TRUE, ix |-> ix,
                   candidates |-> Cardinality(DOMAIN V_x),
                   applied |-> res.applied, readback |-> res.readback],
          ok |-> res.ms.V[0] <= res.ms.V[NB_ATOMS - 1]] :
            res \in {UpdateLoop(heap[Q[ix]], V_x, rew)}} : TRUE

\* update(x, a, x_, r)
update(st, act, st_, rew) ==
    CHOOSE out \in
        {UpdateCell(<<st.y, st.x, act>>, V_x, rew) : V_x \in {sup_q(st_)}} : TRUE

---------------------------------------------------------------------------
(* q_learning *)

\* np.random.random() < eps ? np.random.choice(action_space) : a
eps_greedy(act) == {act} \cup Actions

BudgetCarried(old, st, act) == [raised |-> FALSE, value |-> old]

\* s = Q.var_alpha(x, a, alpha)
StartBudget(old, st, act) == var_alpha(st, act, Alpha)

\* s = (s-r)/gamma
NextBudget(old, rew) == DivQ(old - rew, gamma)

EpisodeGuardOffByOne(n) == n <= MaxEpisodes

\* while e < max_episodes
EpisodeGuard(n) == n < MaxEpisodes

\* while x not in world.goal_states and i < max_episode_length
StepGuard(st, n) == st \notin goal_states /\ n < MaxEpisodeLength

NoRet == [called |-> FALSE, s |-> 0, value |-> 0]

NoAct == [called |-> FALSE, stochastic |-> "default", p_values |-> <<>>,
          output |-> <<>>]

Idle == /\ calls = 0 /\ ret = NoRet /\ mv = MarkovState
        /\ eps_var = 0 /\ act_out = NoAct

Init ==
    /\ Q = NewTable
    /\ heap = NewHeap
    /\ pc = "while_e"
    /\ e = 0 /\ i = 0 /\ x = initial_state /\ a = 0 /\ s = 0 /\ r = 0
    /\ upd = NoUpd
    /\ Idle

others == <<calls, ret, mv, eps_var, act_out>>

\* lines 137-140
StartEpisode ==
    /\ pc = "while_e"
    /\ EpisodeGuard(e)
    /\ x' = initial_state
    /\ \E a0 \in eps_greedy(next_action_alpha(initial_state, Alpha)) :
          LET b == StartBudget(s, initial_state, a0)
          IN /\ a' = a0
             /\ IF b.raised
                THEN pc' = "IndexError" /\ UNCHANGED <<s, i>>
                ELSE pc' = "while_x" /\ s' = b.value /\ i' = 0
    /\ UNCHANGED <<Q, heap, e, r, upd, others>>

\* lines 142-151
Step ==
    /\ pc = "while_x"
    /\ StepGuard(x, i)
    /\ \E a1 \in eps_greedy(next_action_s(x, s)) :
       \E t \in sample_transition(x, a1) :
       \E res \in {update(x, a1, t.state, t.reward)} :
             /\ a' = a1
             /\ r' = t.reward
             /\ heap' = res.heap
             /\ upd' = res.upd
             /\ IF res.ok
                THEN /\ s' = NextBudget(s, t.reward)
                     /\ x' = t.state
                     /\ i' = i + 1
                     /\ pc' = "while_x"
                ELSE /\ pc' = "AssertionError"
                     /\ UNCHANGED <<s, x, i>>
    /\ UNCHANGED <<Q, e, others>>

\* line 152
EndEpisode ==
    /\ pc = "while_x"
    /\ ~StepGuard(x, i)
    /\ e' = e + 1
    /\ pc' = "while_e"
    /\ UNCHANGED <<Q, heap, i, x, a, s, r, upd, others>>

\* line 154
Return ==
    /\ pc = "while_e"
    /\ ~EpisodeGuard(e)
    /\ pc' = "done"
    /\ UNCHANGED <<Q, heap, e, i, x, a, s, r, upd, others>>

Next == StartEpisode \/ Step \/ EndEpisode \/ Return

Spec == Init /\ [][Next]_vars

FairSpec == Spec /\ WF_vars(Next)

---------------------------------------------------------------------------
(* update called on the table directly, with any arguments *)

CallStates == {initial_state, Target(initial_state, 1)}

CallActions == {0, NumActions - 1}

CallRewards == {-Unit, Unit}

InitTable ==
    /\ Q = NewTable
    /\ heap = NewHeap
    /\ pc = "table"
    /\ e = 0 /\ i = 0 /\ x = initial_state /\ a = 0 /\ s = 0 /\ r = 0
    /\ upd = NoUpd
    /\ Idle

CallUpdate ==
    /\ pc = "table"
    /\ calls < MaxCalls
    /\ \E st \in CallStates, act \in CallActions, st_ \in CallStates,
          rew \in CallRewards :
          \E res \in {update(st, act, st_, rew)} :
             /\ heap' = res.heap
             /\ upd' = res.upd
             /\ pc' = IF res.ok THEN "table" ELSE "AssertionError"
    /\ calls' = calls + 1
    /\ UNCHANGED <<Q, e, i, x, a, s, r, ret, mv, eps_var, act_out>>

NextTable == CallUpdate

SpecTable == InitTable /\ [][NextTable]_vars

---------------------------------------------------------------------------
(* e_min_s of a MarkovState holding any quantile sequence *)

Vals == {k * Unit : k \in -MaxVal .. MaxVal}

Thresholds == {(k * Unit) \div 2 : k \in -(2 * MaxVal + 1) .. 2 * MaxVal + 1}

InitPure ==
    /\ Q = NewTable
    /\ heap = NewHeap
    /\ pc = "pure"
    /\ e = 0 /\ i = 0 /\ x = initial_state /\ a = 0 /\ s = 0 /\ r = 0
    /\ upd = NoUpd
    /\ calls = 0 /\ ret = NoRet /\ eps_var = 0 /\ act_out = NoAct
    /\ mv \in {[V |-> v, yC |-> MarkovState.yC] : v \in [AtomIdx -> Vals]}

QueryEMin ==
    /\ pc = "pure"
    /\ \E th \in Thresholds :
          ret' = [called |-> TRUE, s |-> th, value |-> e_min_s(mv, th)]
    /\ UNCHANGED <<Q, heap, pc, e, i, x, a, s, r, upd, calls, mv, eps_var, act_out>>

NextPure == QueryEMin

SpecPure == InitPure /\ [][NextPure]_vars

---------------------------------------------------------------------------
(* build_act (src/cvar/dqn/core/build_graph.py) *)

ActBatch == 2

Batch == 0 .. ActBatch - 1

ActNumActions == 2

ActActions == 0 .. ActNumActions - 1

\* outputs of p_dist_func for one observation: action -> quantile values
PChoices == {<<<<0, 3 * Unit>>, <<2 * Unit, 2 * Unit>>>>,
             <<<<2 * Unit, 2 * Unit>>, <<0, 3 * Unit>>>>,
             <<<<Unit, Unit>>, <<0, 2 * Unit>>>>}

\* tf.reduce_mean(p_values, axis=-1)
quant_to_q(p) ==
    [b \in ActActions |-> Rnd(p[b + 1][1] + p[b + 1][2], Len(p[b + 1]))]

\* tf.argmax(q_values, axis=-1)
pick_action(p) ==
    LET q_values == quant_to_q(p)
    IN MinOf({b \in ActActions :
                q_values[b] = MaxOf({q_values[c] : c \in ActActions})})

GivenStochasticFalse == FALSE

\* givens={update_eps_ph: -1.0, stochastic_ph: True}
GivenStochastic == TRUE

GivenUpdateEps == -Unit

InitAct ==
    /\ Q = NewTable
    /\ heap = NewHeap
    /\ pc = "act"
    /\ e = 0 /\ i = 0 /\ x = initial_state /\ a = 0 /\ s = 0 /\ r = 0
    /\ upd = NoUpd
    /\ Idle

\* act(observation, stochastic, update_eps): one run of the graph.  The read
\* of eps by chose_random and the assign of update_eps_expr are not ordered.
Act ==
    /\ pc = "act"
    /\ \E p \in [Batch -> PChoices],
          st \in {"default", "True", "False"},
          ue \in {"default", "0.0", "0.5"},
          rnd \in [Batch -> ActActions],
          u \in [Batch -> {0, Unit \div 2}] :
          LET stochastic_ph == IF st = "default" THEN GivenStochastic
                               ELSE st = "True"
              update_eps_ph == CASE ue = "default" -> GivenUpdateEps
                                 [] ue = "0.0" -> 0
                                 [] ue = "0.5" -> Unit \div 2
              assigned == IF update_eps_ph >= 0 THEN update_eps_ph ELSE eps_var
              deterministic_actions == [b \in Batch |-> pick_action(p[b])]
          IN \E eps_read \in {eps_var, assigned} :
                LET chose_random == [b \in Batch |-> u[b] < eps_read]
                    stochastic_actions ==
                        [b \in Batch |-> IF chose_random[b] THEN rnd[b]
                                         ELSE deterministic_actions[b]]
                    output_actions == IF stochastic_ph THEN stochastic_actions
                                      ELSE deterministic_actions
                IN /\ eps_var' = assigned
                   /\ act_out' = [called |-> TRUE, stochastic |-> st,
                                  p_values |-> p, output |-> output_actions]
    /\ UNCHANGED <<Q, heap, pc, e, i, x, a, s, r, upd, calls, ret, mv>>

NextAct == Act

SpecAct == InitAct /\ [][NextAct]_vars

---------------------------------------------------------------------------
(* Claims *)

Last == NB_ATOMS - 1

Updated == heap[Q[upd.ix]]

\* C1 (as stated): within one update call the rule runs exactly once per atom
\* index and no read of V[i] or yC[i] sees a value written during the call.
C1_OncePerAtomPreCallReads ==
    upd.called => \A k \in AtomIdx : upd.applied[k] = 1 /\ upd.readback[k] = 0

\* C1 (amended): within one update call the rule runs once per pair of a
\* candidate value of sup_q(x_) and an atom index, so len(sup_q(x_)) = NB_ATOMS
\* times per atom index; only the first of these reads the values the cell
\* held before the call, every later one reads back V[i] and yC[i] written by
\* the one before it.
C1_OncePerCandidateAndAtom ==
    upd.called =>
        /\ upd.candidates = NB_ATOMS
        /\ \A k \in AtomIdx : /\ upd.applied[k] = upd.candidates
                               /\ upd.readback[k] = upd.candidates - 1

C1_Witness == upd.called /\ Updated # MarkovState /\ calls >= 2

C3_VarAlphaReadsOwnCell ==
    (pc = "while_x" /\ i = 0) =>
        s = Cell(initial_state, a).V[PyIdx(VarIdx(Alpha) - 1)]

\* cumulative sum of mass[k] * V[k]
RECURSIVE Envelope(_, _)
Envelope(V, k) ==
    IF k < 0 THEN 0 ELSE MulQ(atom_p[k], V[k]) + Envelope(V, k - 1)

\* C4: at every state and atom index, the CVaR envelope of sup_q(x) equals the
\* maximum over the actions of the stored yC[i] of cell (x, a).
C4_SupQEnvelopeIsMaxYc ==
    \A st \in States : \A k \in AtomIdx :
        Envelope(sup_q(st), k) = MaxOf({Cell(st, b).yC[k] : b \in Actions})

C4_Witness ==
    /\ upd.called
    /\ \E st \in States : \E k \in AtomIdx : \E b, c \in Actions :
          /\ Cell(st, b).yC[k] < Cell(st, c).yC[k]
          /\ Cell(st, b).yC[k] # 0 /\ Cell(st, c).yC[k] # 0
          /\ sup_q(st)[k] # 0

\* C5: for a fixed quantile sequence, sorted or not, e_min_s does not increase
\* as the threshold grows, and it is 0 for a threshold below every value.
C5_EMinMonotone ==
    ret.called =>
        /\ \A th \in Thresholds :
              ret.s <= th => ret.value >= e_min_s(mv, th)
        /\ (\A k \in AtomIdx : ret.s < mv.V[k]) => ret.value = 0

C5_Witness ==
    /\ ret.called /\ ret.value < 0
    /\ mv.V[0] > mv.V[1] /\ mv.V[1] < mv.V[2]
    /\ \E th \in Thresholds : ret.s < th /\ ret.value > e_min_s(mv, th)

\* C6: an episode starts with s = var_alpha(initial_state, a0, alpha) for the
\* epsilon-greedy a0 around next_action_alpha(initial_state, alpha), whatever s
\* was before; every step turns s into (s - r)/gamma for the reward r of the
\* transition just sampled.
C6_BudgetRecurrence ==
    [][/\ (pc = "while_e" /\ pc' = "while_x") =>
            /\ a' \in eps_greedy(next_action_alpha(initial_state, Alpha))
            /\ s' = var_alpha(initial_state, a', Alpha).value
       /\ (pc = "while_x" /\ i' = i + 1) =>
            s' = Rnd((s - r') * Unit, gamma)]_vars

C6_Witness == e = 1 /\ pc = "while_x" /\ i = 2 /\ s # 0

C8_ActionIndexValid ==
    \A st \in States :
        /\ next_action_alpha(st, Alpha) \in 0 .. NumActions - 1
        /\ next_action_s(st, s) \in 0 .. NumActions - 1

C8_Witness ==
    /\ pc = "while_x"
    /\ next_action_alpha(initial_state, Alpha) = NumActions - 1
    /\ next_action_s(x, s) = NumActions - 1

\* C9: act returns the greedy action for every batch element when stochastic
\* is False, and also when the caller does not supply stochastic.
C9_DeterministicUnlessAsked ==
    (act_out.called /\ act_out.stochastic \in {"False", "default"}) =>
        \A b \in Batch : act_out.output[b] = pick_action(act_out.p_values[b])

\* C10: an update call changes the MarkovState of (x, a) only; the V and yC of
\* every other cell of the table stay as they were.
C10_UpdateFrame ==
    [][upd'.called =>
        \A ix \in Index \ {upd'.ix} : heap'[Q'[ix]] = heap[Q[ix]]]_vars

C10_Witness ==
    /\ upd.called /\ Updated # MarkovState
    /\ \E ix \in Index : /\ ix # upd.ix /\ ix[1] = upd.ix[1] /\ ix[2] = upd.ix[2]
                         /\ heap[Q[ix]] = MarkovState
    /\ \E ix \in Index : ix # upd.ix /\ heap[Q[ix]] # MarkovState

=============================================================================
